---- MODULE Spec2Model ----
(***************************************************************************)
(* A model of the jirac entity modules (v2::user, v2::application_role)    *)
(* and of the request pipeline they call.  Strings the code computes by    *)
(* concatenation are sequences of one-character strings; strings the code  *)
(* only passes through are TLA+ strings.  A HashMap is a function whose    *)
(* DOMAIN is the set of its keys.                                          *)
(***************************************************************************)
EXTENDS Integers, Sequences, FiniteSets, TLC

VARIABLES client, orig_headers, prior_if_match, pc, op, local, req, resp, result, acc

vars == <<client, orig_headers, prior_if_match, pc, op, local, req, resp, result, acc>>

\* ------------------------------------------------------------------ bounds
\* Longest expand list a caller passes.
MaxExpand == 3
\* Number of concurrent callers sharing one Client.
NumCallers == 2

Callers == 1..NumCallers
MainCallers == {c \in Callers : \A d \in Callers : c <= d}

\* ------------------------------------------------------------ Option, maps
None == [none |-> TRUE]
IsNone(v) == DOMAIN v = {"none"}

EmptyMap == <<>>
\* HashMap::insert: the new value replaces an old one under the same key.
insert(m, k, v) == (k :> v) @@ m
\* Extend<(K, V)> for HashMap: every pair of `other` is inserted.
extend(m, other) == other @@ m

\* --------------------------------------------------------- computed strings
C_comma == ","
S_groups == <<"g", "r", "o", "u", "p", "s">>
S_applicationRoles ==
  <<"a", "p", "p", "l", "i", "c", "a", "t", "i", "o", "n", "R", "o", "l", "e", "s">>
S_true == <<"t", "r", "u", "e">>
S_false == <<"f", "a", "l", "s", "e">>

\* String::pop: removes the last character, if there is one.
pop(s) == IF Len(s) = 0 THEN s ELSE SubSeq(s, 1, Len(s) - 1)

bool_to_string(b) == IF b THEN S_true ELSE S_false

Digits == <<"0", "1", "2", "3", "4", "5", "6", "7", "8", "9">>
RECURSIVE usize_to_string(_)
usize_to_string(n) ==
  IF n < 10 THEN <<Digits[n + 1]>>
  ELSE usize_to_string(n \div 10) \o <<Digits[(n % 10) + 1]>>

\* ------------------------------------------------------------------ Expand
ExpandTokens == {"Groups", "ApplicationRoles"}

to_string(e) ==
  CASE e = "Groups" -> S_groups
    [] e = "ApplicationRoles" -> S_applicationRoles

\* The fold of expand_to_hashmap: acc, e -> format!("{}{},", acc, e.to_string()).
RECURSIVE expand_fold(_, _)
expand_fold(accum, e) ==
  IF e = <<>> THEN accum
  ELSE expand_fold(accum \o to_string(Head(e)) \o <<C_comma>>, Tail(e))

\* A variant that forgets value.pop(): the value keeps its trailing comma.
expand_to_hashmap_no_pop(e) == insert(EmptyMap, "expand", expand_fold(<<>>, e))

expand_to_hashmap(e) ==
  LET value == pop(expand_fold(<<>>, e))
  IN insert(EmptyMap, "expand", value)

ExpandLists == UNION {[1..n -> ExpandTokens] : n \in 0..MaxExpand}

\* -------------------------------------------------------------------- JSON
\* A JSON value (serde_json::Value), one field per kind.
JNull == [null |-> TRUE]
JBool(b) == [bool |-> b]
JNum(n) == [num |-> n]
JStr(s) == [str |-> s]
JArr(a) == [arr |-> a]
JObj(o) == [obj |-> o]

IsNull(v) == DOMAIN v = {"null"}
IsBool(v) == DOMAIN v = {"bool"}
IsNum(v) == DOMAIN v = {"num"}
IsStr(v) == DOMAIN v = {"str"}
IsArr(v) == DOMAIN v = {"arr"}
IsObj(v) == DOMAIN v = {"obj"}

\* Item, as User::groups and User::application_roles use it: `items` is a
\* serde_json::Value (it is handed to serde_json::value::from_value).
ItemOk(v) == IsObj(v) /\ "items" \in DOMAIN v.obj
DeItem(v) == [items |-> v.obj["items"]]

\* Whether JSON value v deserializes into a field of Rust type ty.
TypeOk(ty, v) ==
  CASE ty = "String" -> IsStr(v)
    [] ty = "bool" -> IsBool(v)
    [] ty = "usize" -> IsNum(v) /\ v.num >= 0
    [] ty = "Vec<String>" -> IsArr(v) /\ \A i \in 1..Len(v.arr) : IsStr(v.arr[i])
    [] ty = "BTreeMap<String,String>" ->
         IsObj(v) /\ \A k \in DOMAIN v.obj : IsStr(v.obj[k])
    [] ty = "Option<Item>" -> IsNull(v) \/ ItemOk(v)

\* The Rust value of a field of type ty deserialized from v (TypeOk(ty, v)).
Convert(ty, v) ==
  CASE ty = "String" -> v.str
    [] ty = "bool" -> v.bool
    [] ty = "usize" -> v.num
    [] ty = "Vec<String>" -> [i \in 1..Len(v.arr) |-> v.arr[i].str]
    [] ty = "BTreeMap<String,String>" -> [k \in DOMAIN v.obj |-> v.obj[k].str]
    [] ty = "Option<Item>" -> IF IsNull(v) THEN None ELSE DeItem(v)

\* Default::default() of a field's type; an absent Option field is None.
DefaultOf(ty) ==
  CASE ty = "String" -> ""
    [] ty = "bool" -> FALSE
    [] ty = "usize" -> 0
    [] ty = "Vec<String>" -> <<>>
    [] ty = "BTreeMap<String,String>" -> EmptyMap
    [] ty = "Option<Item>" -> None

\* Inverse direction (Serialize): the JSON value of a field.
ToJson(ty, x) ==
  CASE ty = "String" -> JStr(x)
    [] ty = "bool" -> JBool(x)
    [] ty = "usize" -> JNum(x)
    [] ty = "Vec<String>" -> JArr([i \in 1..Len(x) |-> JStr(x[i])])
    [] ty = "BTreeMap<String,String>" -> JObj([k \in DOMAIN x |-> JStr(x[k])])
    [] ty = "Option<Item>" -> IF IsNone(x) THEN JNull ELSE JObj("items" :> x.items)

Field(rust, wire, ty, dflt) == [rust |-> rust, wire |-> wire, ty |-> ty, dflt |-> dflt]

\* struct ApplicationRole: every field carries #[serde(default)].
ApplicationRoleFields ==
  << Field("key", "key", "String", TRUE),
     Field("name", "name", "String", TRUE),
     Field("groups", "groups", "Vec<String>", TRUE),
     Field("default_groups", "defaultGroups", "Vec<String>", TRUE),
     Field("selected_by_default", "selectedByDefault", "bool", TRUE),
     Field("defined", "defined", "bool", TRUE),
     Field("number_of_seats", "numberOfSeats", "usize", TRUE),
     Field("remaining_seats", "remainingSeats", "usize", TRUE),
     Field("user_count", "userCount", "usize", TRUE),
     Field("user_count_description", "userCountDescription", "String", TRUE),
     Field("has_unlimited_seats", "hasUnlimitedSeats", "bool", TRUE),
     Field("platform", "platform", "bool", TRUE) >>

\* struct User: groups and application_roles are Option<Item> without default.
UserFields ==
  << Field("active", "active", "bool", TRUE),
     Field("avatar_urls", "avatarUrls", "BTreeMap<String,String>", TRUE),
     Field("display_name", "displayName", "String", TRUE),
     Field("email_address", "emailAddress", "String", TRUE),
     Field("key", "key", "String", TRUE),
     Field("name", "name", "String", TRUE),
     Field("self_link", "self", "String", TRUE),
     Field("timezone", "timeZone", "String", TRUE),
     Field("groups", "groups", "Option<Item>", FALSE),
     Field("application_roles", "applicationRoles", "Option<Item>", FALSE) >>

\* A Group (v2::group): any JSON object is taken as one.
GroupFields == << Field("name", "name", "String", TRUE) >>

\* derive(Deserialize) on a struct: a JSON object is read by field name
\* (unknown names skipped, an absent field defaulted, an absent Option None);
\* a JSON array is read by position, where only a #[serde(default)] field may
\* be missing and no element may be left over.
StructOk(fields, v) ==
  \/ /\ IsObj(v)
     /\ \A i \in 1..Len(fields) :
          IF fields[i].wire \in DOMAIN v.obj
          THEN TypeOk(fields[i].ty, v.obj[fields[i].wire])
          ELSE fields[i].dflt \/ fields[i].ty = "Option<Item>"
  \/ /\ IsArr(v)
     /\ Len(v.arr) <= Len(fields)
     /\ \A i \in 1..Len(fields) :
          IF i <= Len(v.arr) THEN TypeOk(fields[i].ty, v.arr[i]) ELSE fields[i].dflt

FieldIndex(fields, rust) == CHOOSE i \in 1..Len(fields) : fields[i].rust = rust

DeStruct(fields, v) ==
  [r \in {fields[i].rust : i \in 1..Len(fields)} |->
     LET f == fields[FieldIndex(fields, r)]
         i == FieldIndex(fields, r)
     IN IF IsObj(v)
        THEN IF f.wire \in DOMAIN v.obj THEN Convert(f.ty, v.obj[f.wire])
             ELSE DefaultOf(f.ty)
        ELSE IF i <= Len(v.arr) THEN Convert(f.ty, v.arr[i]) ELSE DefaultOf(f.ty)]

\* derive(Serialize): a JSON object keyed by the wire names.
SerStruct(fields, x) ==
  JObj([w \in {fields[i].wire : i \in 1..Len(fields)} |->
          LET f == fields[CHOOSE i \in 1..Len(fields) : fields[i].wire = w]
          IN ToJson(f.ty, x[f.rust])])

FieldsOf(T) ==
  CASE T \in {"ApplicationRole", "Vec<ApplicationRole>"} -> ApplicationRoleFields
    [] T \in {"User", "Vec<User>"} -> UserFields
    [] T = "Vec<Group>" -> GroupFields

IsVecType(T) == T \in {"Vec<ApplicationRole>", "Vec<User>", "Vec<Group>"}

\* Whether JSON value v deserializes into type T, and the value it gives.
CanDe(T, v) ==
  IF IsVecType(T)
  THEN IsArr(v) /\ \A i \in 1..Len(v.arr) : StructOk(FieldsOf(T), v.arr[i])
  ELSE StructOk(FieldsOf(T), v)

De(T, v) ==
  IF IsVecType(T)
  THEN [i \in 1..Len(v.arr) |-> DeStruct(FieldsOf(T), v.arr[i])]
  ELSE DeStruct(FieldsOf(T), v)

\* ------------------------------------------------------------------ Client
\* The Client: base host, default headers, credentials.  clone() gives an
\* independent copy; add_header consumes a Client and returns it with one
\* more default header.
DefaultHeaderSets == {EmptyMap, ("Accept" :> "application/json")}

NewClient(headers) ==
  [host |-> "jira.example.com", headers |-> headers, credentials |-> "Basic dXNlcjpwdw=="]

Clone(c) == c

add_header(c, name, value) == [c EXCEPT !.headers = insert(@, name, value)]

\* The Credential Provider decorates the outgoing request.
AuthHeaders(c) == ("Authorization" :> c.credentials)

\* The request the pipeline dispatches: the Client's default headers and the
\* authentication headers; GET carries no body.
BuildRequest(c, method, path, query, body) ==
  [method |-> method,
   url |-> "https://" \o c.host \o "/rest/" \o path,
   query |-> query,
   headers |-> extend(c.headers, AuthHeaders(c)),
   body |-> IF method \in {"GET", "DELETE"} THEN None ELSE body]

\* ---------------------------------------------------------------- responses
IsSuccess(status) == 200 <= status /\ status <= 299

\* The server's structured error payload: an object whose errorMessages is an
\* array of strings, or a bare array of strings.
ErrorPayloadOk(b) ==
  /\ DOMAIN b = {"json"}
  /\ \/ /\ IsObj(b.json)
        /\ "errorMessages" \in DOMAIN b.json.obj
        /\ TypeOk("Vec<String>", b.json.obj["errorMessages"])
     \/ TypeOk("Vec<String>", b.json)

ErrorMessages(b) ==
  IF IsObj(b.json) THEN Convert("Vec<String>", b.json.obj["errorMessages"])
  ELSE Convert("Vec<String>", b.json)

\* A variant that gives up on an error body it cannot parse.
ClassifyDropsStatus(T, r) ==
  IF r.kind = "failure" THEN [tag |-> "Transport"]
  ELSE IF ~IsSuccess(r.status)
       THEN IF ErrorPayloadOk(r.body)
            THEN [tag |-> "Api", status |-> r.status, messages |-> ErrorMessages(r.body)]
            ELSE [tag |-> "Decode", raw_body |-> r.body]
       ELSE IF DOMAIN r.body = {"json"} /\ CanDe(T, r.body.json)
            THEN [tag |-> "Ok", data |-> De(T, r.body.json), headers |-> r.headers]
            ELSE [tag |-> "Decode", raw_body |-> r.body]

\* A variant that answers a 2xx body it cannot decode with a defaulted value.
ClassifyLenient(T, r) ==
  IF r.kind = "failure" THEN [tag |-> "Transport"]
  ELSE IF ~IsSuccess(r.status)
       THEN [tag |-> "Api", status |-> r.status,
             messages |-> IF ErrorPayloadOk(r.body) THEN ErrorMessages(r.body) ELSE <<>>]
       ELSE IF DOMAIN r.body = {"json"} /\ CanDe(T, r.body.json)
            THEN [tag |-> "Ok", data |-> De(T, r.body.json), headers |-> r.headers]
            ELSE [tag |-> "Ok", data |-> De(T, IF IsVecType(T) THEN JArr(<<>>) ELSE JObj(EmptyMap)),
                  headers |-> r.headers]

\* Classification of the outcome of one round trip into Result<Resp<T>>.
Classify(T, r) ==
  IF r.kind = "failure" THEN [tag |-> "Transport"]
  ELSE IF ~IsSuccess(r.status)
       THEN [tag |-> "Api", status |-> r.status,
             messages |-> IF ErrorPayloadOk(r.body) THEN ErrorMessages(r.body) ELSE <<>>]
       ELSE IF DOMAIN r.body = {"json"} /\ CanDe(T, r.body.json)
            THEN [tag |-> "Ok", data |-> De(T, r.body.json), headers |-> r.headers]
            ELSE [tag |-> "Decode", raw_body |-> r.body]

\* ------------------------------------------------------------------- inputs
RoleKeys == {"jira-core", "jira-software"}

RoleJson(key, name) == JObj(("key" :> JStr(key)) @@ ("name" :> JStr(name)))
RoleCoreJson == RoleJson("jira-core", "JIRA Core")
RoleCore == DeStruct(ApplicationRoleFields, RoleCoreJson)
RoleSoftware == DeStruct(ApplicationRoleFields, RoleJson("jira-software", "JIRA Software"))
Roles == {RoleCore, RoleSoftware}
RoleLists == {<<>>, <<RoleCore>>}

Tokens == {"v1", "v2"}
ApplicationRoleOptionsSet == {None} \cup [if_match : Tokens]

Usernames == {<<"b", "o", "b">>, <<"a", "l">>}
UserOptionsSet == {None} \cup [include_inactive : BOOLEAN, include_active : BOOLEAN]
Paginations == {None} \cup [start_at : {0, 10}, max_results : {1, 50}]

ErrorBodyJson == JObj("errorMessages" :> JArr(<<JStr("No role found")>>))
UserGoodJson ==
  JObj(("name" :> JStr("bob"))
       @@ ("groups" :> JObj(("size" :> JNum(1)) @@ ("items" :> JArr(<<JObj("name" :> JStr("admins"))>>))))
       @@ ("applicationRoles" :> JObj(("size" :> JNum(1)) @@ ("items" :> JArr(<<RoleCoreJson>>)))))
UserBadItemsJson ==
  JObj(("name" :> JStr("bob"))
       @@ ("groups" :> JObj(("size" :> JNum(1)) @@ ("items" :> JStr("oops"))))
       @@ ("applicationRoles" :> JObj(("size" :> JNum(1)) @@ ("items" :> JObj("key" :> JNum(5))))))

Bodies ==
  { [raw |-> "<html>Bad gateway</html>"],
    [raw |-> ""],
    [json |-> ErrorBodyJson],
    [json |-> RoleCoreJson],
    [json |-> JArr(<<RoleCoreJson>>)],
    [json |-> JObj("key" :> JNum(5))],
    [json |-> UserGoodJson],
    [json |-> UserBadItemsJson],
    [json |-> JArr(<<UserGoodJson, UserBadItemsJson>>)],
    [json |-> JArr(<<JStr("Not allowed")>>)] }

Statuses == {200, 299, 300, 404, 412}
ResponseHeaderSets == {EmptyMap, ("ETag" :> "v2")}

Failure == [kind |-> "failure"]
Responses ==
  {Failure} \cup
  {[kind |-> "response", status |-> st, headers |-> h, body |-> b] :
     st \in Statuses, h \in ResponseHeaderSets, b \in Bodies}

\* What the server answers while several updates are in flight: the update
\* went through, or the If-Match precondition failed.
ConcResponses ==
  { [kind |-> "response", status |-> 200, headers |-> ("ETag" :> "v2"),
     body |-> [json |-> RoleCoreJson]],
    [kind |-> "response", status |-> 412, headers |-> EmptyMap, body |-> [raw |-> ""]] }

\* -------------------------------------------------------------------- state
Init ==
  /\ \E h \in DefaultHeaderSets : client = NewClient(h) /\ orig_headers = h
  /\ prior_if_match = FALSE
  /\ pc = [p \in Callers |-> "idle"]
  /\ op = [p \in Callers |-> None]
  /\ local = [p \in Callers |-> None]
  /\ req = [p \in Callers |-> <<>>]
  /\ resp = [p \in Callers |-> None]
  /\ result = [p \in Callers |-> None]
  /\ acc = [p \in Callers |-> None]

\* A caller enters an entity function: its locals are bound and the pipeline
\* call it is about to make is described by `o`.
Enter(p, o, next) ==
  /\ pc[p] = "idle"
  /\ op' = [op EXCEPT ![p] = o]
  /\ pc' = [pc EXCEPT ![p] = next]

Invocation(name, T, method, path, query, body, input) ==
  [name |-> name, T |-> T, method |-> method, path |-> path, query |-> query,
   body |-> body, input |-> input]

\* ------------------------------------------------------- ApplicationRole
ApplicationRole_from_key(p) ==
  \E key \in RoleKeys :
    LET endpoint == "api/2/applicationrole/" \o key
    IN /\ Enter(p, Invocation("ApplicationRole::from_key", "ApplicationRole", "GET",
                              endpoint, None, None, [key |-> key]), "ready")
       /\ UNCHANGED <<client, orig_headers, prior_if_match, local, req, resp, result, acc>>

ApplicationRole_all(p) ==
  /\ Enter(p, Invocation("ApplicationRole::all", "Vec<ApplicationRole>", "GET",
                         "api/2/applicationrole", None, None, None), "ready")
  /\ UNCHANGED <<client, orig_headers, prior_if_match, local, req, resp, result, acc>>

\* update_bulk, first statement: let mut c = c.clone().
ApplicationRole_update_bulk(p) ==
  \E a \in RoleLists, o \in ApplicationRoleOptionsSet :
    /\ Enter(p, Invocation("ApplicationRole::update_bulk", "Vec<ApplicationRole>", "PUT",
                           "api/2/applicationrole", None,
                           [json |-> JArr([i \in 1..Len(a) |-> SerStruct(ApplicationRoleFields, a[i])])],
                           [a |-> a, o |-> o]), "cloned")
    /\ local' = [local EXCEPT ![p] = Clone(client)]
    /\ UNCHANGED <<client, orig_headers, prior_if_match, req, resp, result, acc>>

\* update, first statements: let mut c = c.clone(); the endpoint is formatted.
ApplicationRole_update(p) ==
  \E self \in Roles, o \in ApplicationRoleOptionsSet :
    LET endpoint == "api/2/applicationrole/" \o self.key
    IN /\ Enter(p, Invocation("ApplicationRole::update", "ApplicationRole", "PUT",
                              endpoint, None,
                              [json |-> SerStruct(ApplicationRoleFields, self)],
                              [self |-> self, o |-> o]), "cloned")
       /\ local' = [local EXCEPT ![p] = Clone(client)]
       /\ UNCHANGED <<client, orig_headers, prior_if_match, req, resp, result, acc>>

\* A variant that adds the header to the Client the caller passed in.
add_if_match_to_original(p) ==
  /\ pc[p] = "cloned"
  /\ IF IsNone(op[p].input.o)
     THEN UNCHANGED <<client, local>>
     ELSE /\ client' = add_header(client, "If-Match", op[p].input.o.if_match)
          /\ local' = [local EXCEPT ![p] = client']
  /\ pc' = [pc EXCEPT ![p] = "ready"]
  /\ UNCHANGED <<orig_headers, prior_if_match, op, req, resp, result, acc>>

\* if let Some(o) = o { c = c.add_header("If-Match", o.if_match); }
add_if_match(p) ==
  /\ pc[p] = "cloned"
  /\ IF IsNone(op[p].input.o)
     THEN UNCHANGED local
     ELSE local' = [local EXCEPT ![p] = add_header(local[p], "If-Match", op[p].input.o.if_match)]
  /\ pc' = [pc EXCEPT ![p] = "ready"]
  /\ UNCHANGED <<client, orig_headers, prior_if_match, op, req, resp, result, acc>>

\* --------------------------------------------------------------------- User
\* A variant that fills the entries of an absent option with defaults.
search_query_with_defaults(search, opts, page) ==
  LET o == IF IsNone(opts) THEN [include_inactive |-> FALSE, include_active |-> TRUE] ELSE opts
      pg == IF IsNone(page) THEN [start_at |-> 0, max_results |-> 50] ELSE page
  IN insert(insert(insert(insert(insert(EmptyMap, "username", search),
       "includeInactive", bool_to_string(o.include_inactive)),
       "includeActive", bool_to_string(o.include_active)),
       "startAt", usize_to_string(pg.start_at)),
       "maxResults", usize_to_string(pg.max_results))

\* The query User::search builds.
search_query(search, opts, page) ==
  LET q0 == insert(EmptyMap, "username", search)
      q1 == IF IsNone(opts) THEN q0
            ELSE insert(insert(q0, "includeInactive", bool_to_string(opts.include_inactive)),
                        "includeActive", bool_to_string(opts.include_active))
      q2 == IF IsNone(page) THEN q1
            ELSE insert(insert(q1, "startAt", usize_to_string(page.start_at)),
                        "maxResults", usize_to_string(page.max_results))
  IN q2

User_search(p) ==
  \E search \in Usernames, opts \in UserOptionsSet, page \in Paginations :
    /\ Enter(p, Invocation("User::search", "Vec<User>", "GET", "api/2/user/search",
                           search_query(search, opts, page), None,
                           [search |-> search, opts |-> opts, page |-> page]), "ready")
    /\ UNCHANGED <<client, orig_headers, prior_if_match, local, req, resp, result, acc>>

\* The query User::from_username and User::from_key build.
user_query(field, value, expand) ==
  extend(insert(EmptyMap, field, value), expand_to_hashmap(expand))

User_from_username(p) ==
  \E username \in Usernames, expand \in ExpandLists :
    /\ Enter(p, Invocation("User::from_username", "User", "GET", "api/2/user",
                           user_query("username", username, expand), None,
                           [id |-> username, expand |-> expand]), "ready")
    /\ UNCHANGED <<client, orig_headers, prior_if_match, local, req, resp, result, acc>>

User_from_key(p) ==
  \E key \in Usernames, expand \in ExpandLists :
    /\ Enter(p, Invocation("User::from_key", "User", "GET", "api/2/user",
                           user_query("key", key, expand), None,
                           [id |-> key, expand |-> expand]), "ready")
    /\ UNCHANGED <<client, orig_headers, prior_if_match, local, req, resp, result, acc>>

\* ----------------------------------------------------------------- pipeline
UsesClone(o) == o.name \in {"ApplicationRole::update", "ApplicationRole::update_bulk"}

\* A variant that dispatches every request on the shared Client.
CallOnShared(p) ==
  /\ pc[p] = "ready"
  /\ req' = [req EXCEPT ![p] =
               Append(@, BuildRequest(client, op[p].method, op[p].path, op[p].query, op[p].body))]
  /\ pc' = [pc EXCEPT ![p] = "sent"]
  /\ UNCHANGED <<client, orig_headers, prior_if_match, op, local, resp, result, acc>>

\* The function's tail expression, c.get(..) or c.put(..): the pipeline sends
\* one request, on the clone in update and update_bulk and on the caller's
\* Client everywhere else, and the caller waits for the answer.
Call(p) ==
  /\ pc[p] = "ready"
  /\ LET c == IF UsesClone(op[p]) THEN local[p] ELSE client
     IN req' = [req EXCEPT ![p] =
                  Append(@, BuildRequest(c, op[p].method, op[p].path, op[p].query, op[p].body))]
  /\ pc' = [pc EXCEPT ![p] = "sent"]
  /\ UNCHANGED <<client, orig_headers, prior_if_match, op, local, resp, result, acc>>

\* The round trip ends (an answer or a transport failure) and the pipeline
\* classifies it.
Respond(p, Rs) ==
  /\ pc[p] = "sent"
  /\ \E r \in Rs :
       /\ resp' = [resp EXCEPT ![p] = r]
       /\ result' = [result EXCEPT ![p] = Classify(op[p].T, r)]
  /\ pc' = [pc EXCEPT ![p] = "classified"]
  /\ UNCHANGED <<client, orig_headers, prior_if_match, op, local, req, acc>>

\* A variant that tries again after a failure.
ReturnOrRetry(p) ==
  /\ pc[p] = "classified"
  /\ pc' = [pc EXCEPT ![p] = IF result[p].tag = "Ok" THEN "done" ELSE "ready"]
  /\ prior_if_match' = (prior_if_match \/ (UsesClone(op[p]) /\ ~IsNone(op[p].input.o)))
  /\ UNCHANGED <<client, orig_headers, op, local, req, resp, result, acc>>

\* The entity function returns the pipeline's result as it is; its clone of
\* the Client is dropped.
Return(p) ==
  /\ pc[p] = "classified"
  /\ pc' = [pc EXCEPT ![p] = "done"]
  /\ local' = [local EXCEPT ![p] = None]
  /\ prior_if_match' = (prior_if_match \/ (UsesClone(op[p]) /\ ~IsNone(op[p].input.o)))
  /\ UNCHANGED <<client, orig_headers, op, req, resp, result, acc>>

\* ---------------------------------------------------------------- accessors
\* The Users a finished call handed to its caller.
UsersOf(p) ==
  IF pc[p] = "done" /\ ~IsNone(result[p]) /\ result[p].tag = "Ok"
  THEN IF op[p].T = "User" THEN {result[p].data}
       ELSE IF op[p].T = "Vec<User>"
            THEN {result[p].data[i] : i \in 1..Len(result[p].data)}
            ELSE {}
  ELSE {}

\* if let Some(i) = &item { from_value(i.items.clone()).unwrap() } else { Vec::new() }
\* unwrap() panics on Err: the calling thread is gone.
Unwrapped(p, fn, T, item) ==
  IF IsNone(item)
  THEN /\ acc' = [acc EXCEPT ![p] = [fn |-> fn, value |-> <<>>]]
       /\ UNCHANGED pc
  ELSE IF CanDe(T, item.items)
       THEN /\ acc' = [acc EXCEPT ![p] = [fn |-> fn, value |-> De(T, item.items)]]
            /\ UNCHANGED pc
       ELSE /\ pc' = [pc EXCEPT ![p] = "panicked"]
            /\ UNCHANGED acc

User_groups(p) ==
  /\ IsNone(acc[p])
  /\ \E u \in UsersOf(p) : Unwrapped(p, "User::groups", "Vec<Group>", u.groups)
  /\ UNCHANGED <<client, orig_headers, prior_if_match, op, local, req, resp, result>>

User_application_roles(p) ==
  /\ IsNone(acc[p])
  /\ \E u \in UsersOf(p) :
       Unwrapped(p, "User::application_roles", "Vec<ApplicationRole>", u.application_roles)
  /\ UNCHANGED <<client, orig_headers, prior_if_match, op, local, req, resp, result>>

\* The caller is done with the result and is free to make its next call.
NextCall(p) ==
  /\ pc[p] = "done"
  /\ pc' = [pc EXCEPT ![p] = "idle"]
  /\ op' = [op EXCEPT ![p] = None]
  /\ req' = [req EXCEPT ![p] = <<>>]
  /\ resp' = [resp EXCEPT ![p] = None]
  /\ result' = [result EXCEPT ![p] = None]
  /\ acc' = [acc EXCEPT ![p] = None]
  /\ UNCHANGED <<client, orig_headers, prior_if_match, local>>

\* ------------------------------------------------------------ specifications
\* One caller making one call after another on its Client.
Next ==
  \E p \in MainCallers :
    \/ ApplicationRole_from_key(p)
    \/ ApplicationRole_all(p)
    \/ ApplicationRole_update_bulk(p)
    \/ ApplicationRole_update(p)
    \/ add_if_match(p)
    \/ User_search(p)
    \/ User_from_username(p)
    \/ User_from_key(p)
    \/ Call(p)
    \/ Respond(p, Responses)
    \/ Return(p)
    \/ User_groups(p)
    \/ User_application_roles(p)
    \/ NextCall(p)

Spec == Init /\ [][Next]_vars

\* Several callers, each making one update on the Client they share.
NextConc ==
  \E p \in Callers :
    \/ ApplicationRole_update_bulk(p)
    \/ ApplicationRole_update(p)
    \/ add_if_match(p)
    \/ Call(p)
    \/ Respond(p, ConcResponses)
    \/ Return(p)

SpecConc == Init /\ [][NextConc]_vars

\* ------------------------------------------------------------------- claims
IsUserFetch(o) == ~IsNone(o) /\ o.name \in {"User::from_username", "User::from_key"}
IsSearch(o) == ~IsNone(o) /\ o.name = "User::search"
IsUpdate(o) == ~IsNone(o) /\ UsesClone(o)
Answered(p) == pc[p] \in {"classified", "done", "panicked"}

\* The pieces of s between separators.
RECURSIVE SplitOn(_, _)
SplitOn(s, sep) ==
  IF \A i \in 1..Len(s) : s[i] # sep THEN <<s>>
  ELSE LET i == CHOOSE j \in 1..Len(s) : s[j] = sep /\ \A k \in 1..(j - 1) : s[k] # sep
       IN <<SubSeq(s, 1, i - 1)>> \o SplitOn(SubSeq(s, i + 1, Len(s)), sep)

DigitValue(ch) == CHOOSE d \in 0..9 : Digits[d + 1] = ch
RECURSIVE ParseNat(_)
ParseNat(s) ==
  IF Len(s) = 1 THEN DigitValue(s[1])
  ELSE 10 * ParseNat(SubSeq(s, 1, Len(s) - 1)) + DigitValue(s[Len(s)])

\* C1: for an empty expand list the query of User::from_username and
\* User::from_key, built with expand_to_hashmap, has no "expand" entry at all.
C1_EmptyExpandNoEntry ==
  \A p \in Callers :
    (IsUserFetch(op[p]) /\ op[p].input.expand = <<>>)
      => /\ "expand" \notin DOMAIN op[p].query
         /\ \A i \in 1..Len(req[p]) : "expand" \notin DOMAIN req[p][i].query

\* C2: for a non-empty expand list the "expand" value is the wire strings of
\* the tokens, in the order of the list, separated by single commas, each
\* token once, with no comma at either end; it is the one entry the builder adds.
C2_ExpandJoined ==
  \A p \in Callers :
    (IsUserFetch(op[p]) /\ op[p].input.expand # <<>>)
      => LET e == op[p].input.expand
             h == expand_to_hashmap(e)
             v == op[p].query["expand"]
         IN /\ DOMAIN h = {"expand"}
            /\ h["expand"] = v
            /\ SplitOn(v, C_comma) = [i \in 1..Len(e) |-> to_string(e[i])]
            /\ v[1] # C_comma
            /\ v[Len(v)] # C_comma
            /\ \A i \in 1..Len(req[p]) : req[p][i].query["expand"] = v

C2_Witness ==
  \E p \in Callers :
    /\ pc[p] = "sent"
    /\ IsUserFetch(op[p])
    /\ op[p].input.expand = <<"Groups", "ApplicationRoles">>
    /\ req[p][1].query["expand"] = S_groups \o <<",">> \o S_applicationRoles

\* C3: update and update_bulk with Some(options) put If-Match on their own
\* clone only: the caller's Client keeps exactly its default headers, and a
\* call made on it, also after such an update returned, sends no If-Match.
C3_OriginalClientUntouched ==
  /\ client.headers = orig_headers
  /\ "If-Match" \notin DOMAIN client.headers
  /\ \A p \in Callers :
       (~IsNone(op[p]) /\ (~UsesClone(op[p]) \/ IsNone(op[p].input.o)))
         => \A i \in 1..Len(req[p]) :
              /\ "If-Match" \notin DOMAIN req[p][i].headers
              /\ req[p][i].headers = extend(orig_headers, AuthHeaders(client))

C3_Witness ==
  /\ prior_if_match
  /\ \E p \in Callers :
       /\ pc[p] = "sent"
       /\ ~UsesClone(op[p])
       /\ "If-Match" \notin DOMAIN req[p][1].headers

\* C4: an answer with a non-2xx status always becomes an Api error with that
\* status, carrying the parsed messages when the body is the structured error
\* payload and no messages when it is not; never Ok, Decode or Transport.
C4_NonSuccessIsApi ==
  \A p \in Callers :
    (Answered(p) /\ resp[p] # Failure /\ ~(resp[p].status \in 200..299))
      => /\ result[p].tag = "Api"
         /\ result[p].status = resp[p].status
         /\ ErrorPayloadOk(resp[p].body) => result[p].messages = ErrorMessages(resp[p].body)
         /\ ~ErrorPayloadOk(resp[p].body) => result[p].messages = <<>>
         /\ resp[p].body = [json |-> ErrorBodyJson] => result[p].messages = <<"No role found">>
         /\ DOMAIN resp[p].body = {"raw"} => result[p].messages = <<>>

C4_Witness ==
  \E p \in Callers :
    /\ pc[p] = "done"
    /\ resp[p] # Failure
    /\ resp[p].status = 404
    /\ resp[p].body = [json |-> ErrorBodyJson]
    /\ result[p].tag = "Api"
    /\ result[p].status = 404
    /\ result[p].messages = <<"No role found">>

\* C5: an Ok result exists only for a 2xx answer whose body deserializes into
\* the requested type, and carries that answer's headers; a 2xx answer whose
\* body is not JSON or does not fit the type is a Decode error.
C5_OkOnlyForDecoded2xx ==
  \A p \in Callers :
    Answered(p)
      => /\ result[p].tag = "Ok"
              => /\ resp[p] # Failure
                 /\ resp[p].status \in 200..299
                 /\ DOMAIN resp[p].body = {"json"}
                 /\ CanDe(op[p].T, resp[p].body.json)
                 /\ result[p].data = De(op[p].T, resp[p].body.json)
                 /\ result[p].headers = resp[p].headers
         /\ (resp[p] # Failure /\ resp[p].status \in 200..299
               /\ (DOMAIN resp[p].body = {"raw"} \/ ~CanDe(op[p].T, resp[p].body.json)))
              => result[p].tag = "Decode"
         /\ (resp[p] # Failure /\ resp[p].status = 200 /\ op[p].T = "ApplicationRole"
               /\ resp[p].body = [json |-> RoleCoreJson])
              => (result[p].tag = "Ok" /\ result[p].data.key = "jira-core")

C5_Witness ==
  \E p \in Callers :
    /\ pc[p] = "done"
    /\ op[p].T = "ApplicationRole"
    /\ result[p].tag = "Ok"
    /\ result[p].data.key = "jira-core"
    /\ result[p].headers = ("ETag" :> "v2")
    /\ resp[p].status = 200

\* C6: User::groups and User::application_roles return normally for every
\* User a server answer gave, malformed items included: no caller panics.
C6_NeverPanics == \A p \in Callers : pc[p] # "panicked"

\* C7: the query of User::search holds "username" and, beyond it, only the
\* entries of the options the caller passed, each with the caller's value:
\* nothing for an absent UserOptions, nothing for an absent Pagination.
C7_SearchQueryOnlySetFields ==
  \A p \in Callers :
    IsSearch(op[p])
      => LET q == op[p].query
             opts == op[p].input.opts
             page == op[p].input.page
         IN /\ DOMAIN q = {"username"}
                 \cup (IF IsNone(opts) THEN {} ELSE {"includeInactive", "includeActive"})
                 \cup (IF IsNone(page) THEN {} ELSE {"startAt", "maxResults"})
            /\ q["username"] = op[p].input.search
            /\ ~IsNone(opts)
                 => /\ q["includeInactive"] \in {S_true, S_false}
                    /\ q["includeActive"] \in {S_true, S_false}
                    /\ (q["includeInactive"] = S_true) = opts.include_inactive
                    /\ (q["includeActive"] = S_true) = opts.include_active
            /\ ~IsNone(page)
                 => /\ ParseNat(q["startAt"]) = page.start_at
                    /\ ParseNat(q["maxResults"]) = page.max_results
            /\ \A i \in 1..Len(req[p]) : req[p][i].query = q

C7_Witness ==
  \E p \in Callers :
    /\ pc[p] = "sent"
    /\ IsSearch(op[p])
    /\ IsNone(op[p].input.opts)
    /\ IsNone(op[p].input.page)
    /\ DOMAIN req[p][1].query = {"username"}

\* C8: every entity operation sends exactly one request per invocation,
\* whatever its outcome: none before the call, one from then on, never two.
C8_OneRequestPerCall ==
  \A p \in Callers :
    /\ Len(req[p]) <= 1
    /\ pc[p] \in {"idle", "cloned", "ready"} => Len(req[p]) = 0
    /\ pc[p] \in {"sent", "classified", "done", "panicked"} => Len(req[p]) = 1

C8_Witness ==
  \E p \in Callers :
    /\ pc[p] = "done"
    /\ result[p].tag \in {"Transport", "Api", "Decode"}
    /\ Len(req[p]) = 1

\* C9: with several updates in flight on one shared Client, a request carries
\* If-Match exactly when its own call passed Some(options), and then with
\* that call's own token.
C9_OwnIfMatchOnly ==
  \A p \in Callers :
    IsUpdate(op[p])
      => \A i \in 1..Len(req[p]) :
           LET h == req[p][i].headers
               o == op[p].input.o
           IN /\ ("If-Match" \in DOMAIN h) = ~IsNone(o)
              /\ ~IsNone(o) => h["If-Match"] = o.if_match

C9_Witness ==
  \E p, q \in Callers :
    /\ p # q
    /\ pc[p] = "sent"
    /\ pc[q] = "sent"
    /\ ~IsNone(op[p].input.o)
    /\ ~IsNone(op[q].input.o)
    /\ op[p].input.o.if_match # op[q].input.o.if_match
    /\ req[p][1].headers["If-Match"] = op[p].input.o.if_match
    /\ req[q][1].headers["If-Match"] = op[q].input.o.if_match

====
